---- MODULE Spec2Model ----
(***************************************************************************)
(* A model of src/view.rs of the image viewer: the scan worker spawned by  *)
(* main_view (directory walk, read_directory, create_thumbnail and the     *)
(* submission of ImageFolder records to the presentation context) and the  *)
(* click handlers of the folder and single-image views.                    *)
(***************************************************************************)
EXTENDS Integers, Sequences, FiniteSets, TLC

\* ------------------------------------------------------------------------
\* Bounds of the model
\* ------------------------------------------------------------------------

\* Regular files in the whole directory tree.
MaxFiles == 3

\* Changes of the filesystem (a directory turning unreadable or readable
\* again, a directory entry failing to read) while the worker runs.
MaxFsEvents == 1

\* Paths of a folder the navigation is tried on.
MaxPaths == 3

\* Clicks in a row on the same arrow that are told apart.
MaxStreak == 2

\* ------------------------------------------------------------------------
\* The directory tree the worker scans
\* ------------------------------------------------------------------------

\* root holds the directories a and b, and b holds the directory c.
Dirs == {"root", "a", "b", "c"}

SubDirs(d) ==
    CASE d = "root" -> <<"a", "b">>
      [] d = "b" -> <<"c">>
      [] OTHER -> <<>>

\* The directories at and below d, a directory before the directories it
\* holds, these in listing order.
RECURSIVE Preorder(_)
RECURSIVE PreorderAll(_)
Preorder(d) == <<d>> \o PreorderAll(SubDirs(d))
PreorderAll(ds) ==
    IF ds = <<>> THEN <<>> ELSE Preorder(Head(ds)) \o PreorderAll(Tail(ds))

\* What a regular file is to the decoder: a decodable image, a file
\* Reader::open fails on, a file with_guessed_format fails on, and a file
\* decode fails on.
FileKinds == {"image", "unopenable", "unsniffable", "corrupt"}

VARIABLES
    files,        \* files[d]: the regular files of directory d, in listing order
    rootExists,   \* whether the root path names an existing directory
    readable,     \* readable[d]: read_dir(d) succeeds now
    fsEvents,     \* filesystem changes so far
    pc,           \* the worker's position
    stack,        \* WalkDir's stack of open directory listings
    cur,          \* the directory entry the walk is at
    ahead,        \* the directories the walk has still to read
    visited,      \* the directories read_directory has listed, in order
    queue,        \* the submitted commands not yet delivered
    submitted,    \* every record submit_command accepted, in order
    delivered,    \* the records the presentation context has received
    alive,        \* whether the presentation context is running
    panicAt,      \* which unwrap ended the worker, if any
    views,        \* the navigation's stack of views, the current one last
    selectedFolder, \* the index of the folder entered, as None or Some
    data,         \* the FolderGalleryState: name, paths, selected_image
    cmds,         \* the commands submitted and not yet handled
    lastClick,    \* the arrow clicked last: "left", "right" or "none"
    selBefore,    \* data.selected_image before that click
    streak,       \* clicks in a row on that arrow at its boundary
    lastCmd,      \* the command handled last, as None or Some
    viewsBefore,  \* views before that command
    atPush,       \* Some(data when the image view was pushed), None outside a folder
    clicked,      \* Some(the thumbnail clicked last in the folder entered), or None
    lenUnderflow, \* whether `data.paths.len() - 1` was evaluated on no paths
    imgW,         \* the width of a decoded image given to create_thumbnail
    imgH,         \* its height
    thumb,        \* the dimensions of the thumbnail made last, as None or Some
    firstThumb,   \* the dimensions of the thumbnail made first of that image
    calls         \* how many times create_thumbnail was called on the image

scanVars ==
    <<files, rootExists, readable, fsEvents, pc, stack, cur, ahead, visited, queue,
      submitted, delivered, alive, panicAt>>

\* What the navigation remembers of its last command and click.
navHistory == <<lastCmd, viewsBefore, atPush, clicked, lenUnderflow>>

navVars ==
    <<views, selectedFolder, data, cmds, lastClick, selBefore, streak,
      navHistory>>

thumbVars == <<imgW, imgH, thumb, firstThumb, calls>>

vars == <<scanVars, navVars, thumbVars>>

\* ------------------------------------------------------------------------
\* read_directory and create_thumbnail
\* ------------------------------------------------------------------------

\* The path of the i-th regular file of directory d.
FilePath(d, i) == <<d, i>>

\* Reader::open(file.path())
ReaderOpen(kind) == kind # "unopenable"

\* image.with_guessed_format()
WithGuessedFormat(kind) == kind # "unsniffable"

\* image.decode()
Decode(kind) == kind = "image"

\* The three matches of the loop body: a file that passes none of the
\* `continue`s reaches the two push_back calls.
Decodes(kind) == ReaderOpen(kind) /\ WithGuessedFormat(kind) /\ Decode(kind)

\* A create_thumbnail that tags the thumbnail with the file's position in the
\* directory listing instead of the index it is given.
create_thumbnail_listing_index(index, path) ==
    [index |-> path[2] - 1, image |-> path]

\* create_thumbnail(index, image): the thumbnail of the decoded image of
\* file `path`, tagged with `index`.
create_thumbnail(index, path) == [index |-> index, image |-> path]

\* A loop that ends at the first file that fails, where the code continues.
RECURSIVE ReadLoopStopsAtFailure(_, _, _, _)
ReadLoopStopsAtFailure(d, i, images, paths) ==
    IF i > Len(files[d]) \/ ~Decodes(files[d][i])
    THEN [thumbnails |-> images, paths |-> paths]
    ELSE ReadLoopStopsAtFailure(d, i + 1,
             Append(images, create_thumbnail(Len(images), FilePath(d, i))),
             Append(paths, FilePath(d, i)))

\* The for loop of read_directory from the i-th file on, with the two
\* vectors built so far.
RECURSIVE ReadLoop(_, _, _, _)
ReadLoop(d, i, images, paths) ==
    IF i > Len(files[d])
    THEN [thumbnails |-> images, paths |-> paths]
    ELSE IF Decodes(files[d][i])
         THEN ReadLoop(d, i + 1,
                       Append(images, create_thumbnail(Len(images), FilePath(d, i))),
                       Append(paths, FilePath(d, i)))
         ELSE ReadLoop(d, i + 1, images, paths)

read_directory(d) == ReadLoop(d, 1, <<>>, <<>>)

\* A worker without the emptiness test.
EmitsAlways(thumbnails) == TRUE

\* `if !thumbnails.is_empty()`
Emits(thumbnails) == thumbnails # <<>>

\* The ImageFolder the worker builds for directory d.
ImageFolder(d, r) ==
    [name |-> d, paths |-> r.paths, thumbnails |-> r.thumbnails,
     selected |-> "None"]

\* ------------------------------------------------------------------------
\* The walk: WalkDir::new(root).into_iter().filter_entry(..)
\* ------------------------------------------------------------------------

\* WalkDir opens a directory's listing before it yields the directory: a
\* failure of read_dir is kept in the listing and yielded by its next().
OpenListing(d) ==
    [dir |-> d, err |-> ~readable[d],
     rest |-> IF readable[d] THEN SubDirs(d) ELSE <<>>]

\* A predicate without `dir.next().is_some()`.
FilterPredicateAnyReadable(d) == readable[d]

\* The filter_entry predicate: a directory that read_dir can read and that
\* holds at least one entry.
FilterPredicate(d) ==
    readable[d] /\ Len(files[d]) + Len(SubDirs(d)) > 0

Pop(s) == SubSeq(s, 1, Len(s) - 1)

\* Directory d and the directories below it.
RECURSIVE Subtree(_)
Subtree(d) ==
    {d} \cup UNION {Subtree(SubDirs(d)[i]) : i \in DOMAIN SubDirs(d)}

\* The listings on top of the stack that are exhausted are popped.
RECURSIVE Unwind(_)
Unwind(s) ==
    IF s = <<>> THEN s
    ELSE IF ~s[Len(s)].err /\ s[Len(s)].rest = <<>>
         THEN Unwind(Pop(s))
         ELSE s

Panic(at) ==
    /\ pc' = "panicked"
    /\ panicAt' = at

\* The first next() of the walk: the root entry. A root that does not exist
\* is yielded as an Err, which `entry.unwrap()` panics on.
WalkRoot ==
    /\ pc = "start"
    /\ IF rootExists
       THEN /\ stack' = <<OpenListing("root")>>
            /\ cur' = "root"
            /\ pc' = "filter"
            /\ UNCHANGED panicAt
       ELSE /\ Panic("entry")
            /\ UNCHANGED <<stack, cur>>
    /\ UNCHANGED <<navVars, thumbVars>>
    /\ UNCHANGED <<files, rootExists, readable, fsEvents, ahead, visited, queue,
                   submitted, delivered, alive>>

\* filter_entry's closure on the entry the walk is at: a rejected directory
\* is skipped with its listing (skip_current_dir).
FilterEntry ==
    /\ pc = "filter"
    /\ IF FilterPredicate(cur)
       THEN /\ pc' = "scan"
            /\ UNCHANGED <<stack, ahead>>
       ELSE /\ pc' = "next"
            /\ stack' = Pop(stack)
            /\ ahead' = ahead \ Subtree(cur)
    /\ UNCHANGED <<navVars, thumbVars>>
    /\ UNCHANGED <<files, rootExists, readable, fsEvents, cur, visited, queue,
                   submitted, delivered, alive, panicAt>>

\* The next entry of the walk. Regular files are entries too: the predicate
\* rejects them and the walk goes on, which changes nothing here.
WalkNext ==
    /\ pc = "next"
    /\ LET s == Unwind(stack) IN
       IF s = <<>>
       THEN /\ pc' = "done"
            /\ stack' = s
            /\ UNCHANGED <<cur, panicAt>>
       ELSE IF s[Len(s)].err
            THEN /\ Panic("entry")
                 /\ stack' = s
                 /\ UNCHANGED cur
            ELSE LET child == Head(s[Len(s)].rest) IN
                 /\ stack' = Append([s EXCEPT ![Len(s)].rest = Tail(@)],
                                    OpenListing(child))
                 /\ cur' = child
                 /\ pc' = "filter"
                 /\ UNCHANGED panicAt
    /\ UNCHANGED <<navVars, thumbVars>>
    /\ UNCHANGED <<files, rootExists, readable, fsEvents, ahead, visited, queue,
                   submitted, delivered, alive>>

\* An entry of an open listing fails to read: the walk yields an Err and
\* `entry.unwrap()` panics.
WalkEntryError ==
    /\ pc = "next"
    /\ fsEvents < MaxFsEvents
    /\ Unwind(stack) # <<>>
    /\ fsEvents' = fsEvents + 1
    /\ Panic("entry")
    /\ UNCHANGED <<navVars, thumbVars>>
    /\ UNCHANGED <<files, rootExists, readable, stack, cur, ahead, visited, queue,
                   submitted, delivered, alive>>

\* A submission that jumps the queue.
SubmitAtFront(rec) ==
    /\ queue' = <<rec>> \o queue
    /\ submitted' = Append(submitted, rec)

\* A submission that reports success and drops the record.
SubmitDropped(rec) ==
    /\ queue' = queue
    /\ submitted' = Append(submitted, rec)

\* handle.submit_command(..): the record is queued for the presentation
\* context. With the context gone the call may report an error.
SubmitOk(rec) ==
    /\ queue' = Append(queue, rec)
    /\ submitted' = Append(submitted, rec)

\* The body of `for entry in walk`: read_directory, the emptiness test, and
\* the submission with its unwrap.
ScanEntry ==
    /\ pc = "scan"
    /\ IF ~readable[cur]
       THEN \* fs::read_dir(entry.path()).unwrap()
            /\ Panic("read_dir")
            /\ UNCHANGED <<ahead, visited, queue, submitted>>
       ELSE LET r == read_directory(cur) IN
            /\ visited' = Append(visited, cur)
            /\ ahead' = ahead \ {cur}
            /\ IF Emits(r.thumbnails)
               THEN \/ /\ SubmitOk(ImageFolder(cur, r))
                       /\ pc' = "next"
                       /\ UNCHANGED panicAt
                    \/ /\ ~alive
                       /\ Panic("submit")
                       /\ UNCHANGED <<queue, submitted>>
               ELSE /\ pc' = "next"
                    /\ UNCHANGED <<queue, submitted, panicAt>>
    /\ UNCHANGED <<navVars, thumbVars>>
    /\ UNCHANGED <<files, rootExists, readable, fsEvents, stack, cur,
                   delivered, alive>>

\* An entry of the directory being listed fails to read: `file.unwrap()`.
ReadEntryError ==
    /\ pc = "scan"
    /\ readable[cur]
    /\ fsEvents < MaxFsEvents
    /\ fsEvents' = fsEvents + 1
    /\ Panic("file")
    /\ UNCHANGED <<navVars, thumbVars>>
    /\ UNCHANGED <<files, rootExists, readable, stack, cur, ahead, visited, queue,
                   submitted, delivered, alive>>

\* ------------------------------------------------------------------------
\* The presentation context and the filesystem
\* ------------------------------------------------------------------------

\* The presentation context receives FINISHED_READING_IMAGE_FOLDER and
\* appends the record to its folder list.
Deliver ==
    /\ alive
    /\ queue # <<>>
    /\ delivered' = Append(delivered, Head(queue))
    /\ queue' = Tail(queue)
    /\ UNCHANGED <<navVars, thumbVars>>
    /\ UNCHANGED <<files, rootExists, readable, fsEvents, pc, stack, cur,
                   ahead, visited, submitted, alive, panicAt>>

\* The window is closed while the worker may still be running.
CloseWindow ==
    /\ alive
    /\ alive' = FALSE
    /\ UNCHANGED <<navVars, thumbVars>>
    /\ UNCHANGED <<files, rootExists, readable, fsEvents, pc, stack, cur,
                   ahead, visited, queue, submitted, delivered, panicAt>>

\* The worker reads directory d next: it is at d, or d is the entry its walk
\* opens next.
NextRead(d) ==
    \/ pc = "start" /\ d = "root"
    \/ pc \in {"filter", "scan"} /\ d = cur
    \/ /\ pc = "next"
       /\ LET s == Unwind(stack) IN
          /\ s # <<>>
          /\ s[Len(s)].rest # <<>>
          /\ d = Head(s[Len(s)].rest)

\* A directory loses or regains its readability (its permissions change, it
\* is removed or put back) while the worker runs. The worker sees a change
\* only at its next read of the directory, so the changes are those of the
\* directory it reads next.
FsChange(d) ==
    /\ pc \notin {"done", "panicked"}
    /\ NextRead(d)
    /\ fsEvents < MaxFsEvents
    /\ fsEvents' = fsEvents + 1
    /\ readable' = [readable EXCEPT ![d] = ~@]
    /\ UNCHANGED <<navVars, thumbVars>>
    /\ UNCHANGED <<files, rootExists, pc, stack, cur, ahead, visited, queue,
                   submitted, delivered, alive, panicAt>>

\* ------------------------------------------------------------------------
\* The specification of the scan
\* ------------------------------------------------------------------------

\* An Option: None is the empty sequence and Some(x) the sequence of x alone.
None == <<>>

Some(x) == <<x>>

\* The FolderGalleryState before a folder is entered.
NoFolder == [name |-> "", paths |-> <<>>, selected_image |-> 0]

\* The navigation before the first click: the gallery, no folder entered.
NavIdle ==
    /\ views = <<"Gallery">>
    /\ selectedFolder = None
    /\ data = NoFolder
    /\ cmds = <<>>
    /\ lastClick = "none"
    /\ selBefore = 0
    /\ streak = 0
    /\ lastCmd = None
    /\ viewsBefore = <<"Gallery">>
    /\ atPush = None
    /\ clicked = None
    /\ lenUnderflow = FALSE

\* No image is given to create_thumbnail on its own.
ThumbIdle ==
    /\ imgW = 1
    /\ imgH = 1
    /\ thumb = None
    /\ firstThumb = None
    /\ calls = 0

TotalFiles(f) == Len(f["root"]) + Len(f["a"]) + Len(f["b"]) + Len(f["c"])

\* The worker is spawned on a tree whose files are of the given kinds.
ScanInitOver(kinds) ==
    /\ \E n \in [Dirs -> 0..MaxFiles] :
         /\ TotalFiles([d \in Dirs |-> [i \in 1..n[d] |-> "image"]]) <= MaxFiles
         /\ \E fr \in [1..n["root"] -> kinds], fa \in [1..n["a"] -> kinds],
               fb \in [1..n["b"] -> kinds], fc \in [1..n["c"] -> kinds] :
              files = [d \in Dirs |->
                         CASE d = "root" -> fr [] d = "a" -> fa
                           [] d = "b" -> fb [] OTHER -> fc]
    /\ rootExists \in IF TotalFiles(files) = 0 THEN BOOLEAN ELSE {TRUE}
    /\ readable = [d \in Dirs |-> TRUE]
    /\ fsEvents = 0
    /\ pc = "start"
    /\ stack = <<>>
    /\ cur = "root"
    /\ ahead = Dirs
    /\ visited = <<>>
    /\ queue = <<>>
    /\ submitted = <<>>
    /\ delivered = <<>>
    /\ alive = TRUE
    /\ panicAt = "none"
    /\ NavIdle
    /\ ThumbIdle

ScanInit == ScanInitOver(FileKinds)

Init == ScanInit

Next ==
    \/ WalkRoot
    \/ FilterEntry
    \/ WalkNext
    \/ WalkEntryError
    \/ ScanEntry
    \/ ReadEntryError
    \/ Deliver
    \/ CloseWindow
    \/ \E d \in Dirs : FsChange(d)

Spec == Init /\ [][Next]_vars

\* ------------------------------------------------------------------------
\* The navigation: the views' click handlers and the commands they submit
\* ------------------------------------------------------------------------

Top == views[Len(views)]

Command(selector, payload) == [selector |-> selector, payload |-> payload]

\* A left arrow without the test for index 0.
LeftStepUnguarded(sel, len) == IF len = 0 THEN sel ELSE sel - 1

\* The left arrow's on_click: `if data.paths.is_empty() ||
\* data.selected_image == 0 { return; } data.selected_image -= 1`.
LeftStep(sel, len) ==
    IF len = 0 \/ sel = 0 THEN sel ELSE sel - 1

\* A right arrow that wraps to the first image after the last.
RightStepWraps(sel, len) == IF len = 0 THEN sel ELSE (sel + 1) % len

\* A right arrow without the is_empty() test: on an empty folder the usize
\* `len() - 1` is not 0 - 1 but wraps, and the step is taken.
RightStepNoEmptyTest(sel, len) ==
    IF len # 0 /\ sel = len - 1 THEN sel ELSE sel + 1

\* The right arrow's on_click: `if data.paths.is_empty() ||
\* data.selected_image == data.paths.len() - 1 { return; }
\* data.selected_image += 1`.
RightStep(sel, len) ==
    IF len = 0 \/ sel = len - 1 THEN sel ELSE sel + 1

\* Whether the right arrow's test evaluates `data.paths.len() - 1` below 0:
\* `||` evaluates its right side only when is_empty() is false, and the
\* usize subtraction underflows on a length of 0.
RightUnderflows(len) == ~(len = 0) /\ len - 1 < 0

Min(a, b) == IF a < b THEN a ELSE b

\* The streak of clicks on one arrow at its boundary, after another click.
NextStreak(arrow, atBoundary) ==
    IF ~atBoundary THEN 0
    ELSE IF lastClick = arrow THEN Min(streak + 1, MaxStreak) ELSE 1

\* A click waits until the commands of the event before it are handled.
Idle == alive /\ cmds = <<>>

\* The folder name's on_click in the gallery: SELECTED_FOLDER with the
\* folder's index.
ClickFolderName(idx) ==
    /\ Idle
    /\ Top = "Gallery"
    /\ idx < Len(delivered)
    /\ cmds' = Append(cmds, Command("SELECTED_FOLDER", idx))
    /\ UNCHANGED <<views, selectedFolder, data, lastClick, selBefore, streak>>
    /\ UNCHANGED navHistory
    /\ UNCHANGED <<scanVars, thumbVars>>

\* A thumbnail click that submits the selection before the push.
ClickThumbnailSelectsFirst(i) ==
    /\ Idle
    /\ Top = "Folder"
    /\ i < Len(data.paths)
    /\ cmds' = cmds \o <<Command("GALLERY_SELECTED_IMAGE", i),
                         Command("PUSH_VIEW", "SingleImage")>>
    /\ clicked' = Some(i)
    /\ UNCHANGED <<views, selectedFolder, data, lastClick, selBefore, streak>>
    /\ UNCHANGED <<lastCmd, viewsBefore, atPush, lenUnderflow>>
    /\ UNCHANGED <<scanVars, thumbVars>>

\* A thumbnail's on_click in the folder view: PUSH_VIEW(SingleImage), then
\* GALLERY_SELECTED_IMAGE with the thumbnail's index.
ClickThumbnail(i) ==
    /\ Idle
    /\ Top = "Folder"
    /\ i < Len(data.paths)
    /\ cmds' = cmds \o <<Command("PUSH_VIEW", "SingleImage"),
                         Command("GALLERY_SELECTED_IMAGE", i)>>
    /\ clicked' = Some(i)
    /\ UNCHANGED <<views, selectedFolder, data, lastClick, selBefore, streak>>
    /\ UNCHANGED <<lastCmd, viewsBefore, atPush, lenUnderflow>>
    /\ UNCHANGED <<scanVars, thumbVars>>

\* The folder view's back button: POP_VIEW.
ClickFolderBack ==
    /\ Idle
    /\ Top = "Folder"
    /\ cmds' = Append(cmds, Command("POP_VIEW", "unit"))
    /\ UNCHANGED <<views, selectedFolder, data, lastClick, selBefore, streak>>
    /\ UNCHANGED navHistory
    /\ UNCHANGED <<scanVars, thumbVars>>

\* A back button that submits its pop twice.
ClickImageBackTwice ==
    /\ Idle
    /\ Top = "SingleImage"
    /\ cmds' = cmds \o <<Command("POP_FOLDER_VIEW", "unit"),
                         Command("POP_FOLDER_VIEW", "unit")>>
    /\ UNCHANGED <<views, selectedFolder, data, lastClick, selBefore, streak>>
    /\ UNCHANGED navHistory
    /\ UNCHANGED <<scanVars, thumbVars>>

\* The image view's back button: POP_FOLDER_VIEW.
ClickImageBack ==
    /\ Idle
    /\ Top = "SingleImage"
    /\ cmds' = Append(cmds, Command("POP_FOLDER_VIEW", "unit"))
    /\ UNCHANGED <<views, selectedFolder, data, lastClick, selBefore, streak>>
    /\ UNCHANGED navHistory
    /\ UNCHANGED <<scanVars, thumbVars>>

\* The image view's left arrow.
ClickLeft ==
    /\ Idle
    /\ Top = "SingleImage"
    /\ data' = [data EXCEPT !.selected_image = LeftStep(@, Len(data.paths))]
    /\ lastClick' = "left"
    /\ selBefore' = data.selected_image
    /\ streak' = NextStreak("left", data.selected_image = 0)
    /\ UNCHANGED <<views, selectedFolder, cmds>>
    /\ UNCHANGED navHistory
    /\ UNCHANGED <<scanVars, thumbVars>>

\* The image view's right arrow.
ClickRight ==
    /\ Idle
    /\ Top = "SingleImage"
    /\ data' = [data EXCEPT !.selected_image = RightStep(@, Len(data.paths))]
    /\ lastClick' = "right"
    /\ selBefore' = data.selected_image
    /\ streak' = NextStreak("right", data.selected_image = Len(data.paths) - 1)
    /\ lenUnderflow' = (lenUnderflow \/ RightUnderflows(Len(data.paths)))
    /\ UNCHANGED <<views, selectedFolder, cmds>>
    /\ UNCHANGED <<lastCmd, viewsBefore, atPush, clicked>>
    /\ UNCHANGED <<scanVars, thumbVars>>

\* A select_folder that takes any index for a folder of the list.
SelectFolderUnchecked(idx) ==
    IF Top = "Gallery"
    THEN /\ selectedFolder' = Some(idx)
         /\ data' = IF idx < Len(delivered)
                    THEN [name |-> delivered[idx + 1].name,
                          paths |-> delivered[idx + 1].paths,
                          selected_image |-> 0]
                    ELSE NoFolder
         /\ views' = Append(views, "Folder")
    ELSE UNCHANGED <<views, selectedFolder, data>>

\* select_folder(idx): a folder of the list is entered from the gallery; an
\* index outside the list is rejected.
SelectFolder(idx) ==
    IF Top = "Gallery" /\ idx < Len(delivered)
    THEN /\ selectedFolder' = Some(idx)
         /\ data' = [name |-> delivered[idx + 1].name,
                     paths |-> delivered[idx + 1].paths,
                     selected_image |-> 0]
         /\ views' = Append(views, "Folder")
    ELSE UNCHANGED <<views, selectedFolder, data>>

\* A push that accepts every view on every frame.
PushViewAlways(view) ==
    /\ views' = Append(views, view)
    /\ UNCHANGED <<selectedFolder, data>>

\* push(view): SingleImage is pushed on Folder and nowhere else.
PushView(view) ==
    IF view = "SingleImage" /\ Top = "Folder"
    THEN /\ views' = Append(views, view)
         /\ UNCHANGED <<selectedFolder, data>>
    ELSE UNCHANGED <<views, selectedFolder, data>>

\* The selection a thumbnail click asks for; an index outside the folder is
\* rejected.
SelectImage(i) ==
    IF i < Len(data.paths)
    THEN /\ data' = [data EXCEPT !.selected_image = i]
         /\ UNCHANGED <<views, selectedFolder>>
    ELSE UNCHANGED <<views, selectedFolder, data>>

\* A pop that removes the gallery frame too.
PopViewPastGallery ==
    /\ views' = SubSeq(views, 1, Len(views) - 1)
    /\ IF Top = "Folder"
       THEN /\ selectedFolder' = None
            /\ data' = NoFolder
       ELSE UNCHANGED <<selectedFolder, data>>

\* pop(): the top frame is removed, and on the gallery nothing happens. The
\* FolderGalleryState is discarded with the folder frame.
PopView ==
    IF Top = "Gallery"
    THEN UNCHANGED <<views, selectedFolder, data>>
    ELSE /\ views' = SubSeq(views, 1, Len(views) - 1)
         /\ IF Top = "Folder"
            THEN /\ selectedFolder' = None
                 /\ data' = NoFolder
            ELSE UNCHANGED <<selectedFolder, data>>

\* POP_FOLDER_VIEW, the image view's back command, is the same pop().
PopFolderView == PopView

\* The presentation context handles the command at the head of its queue.
HandleCommand ==
    /\ alive
    /\ cmds # <<>>
    /\ LET cmd == Head(cmds) IN
       CASE cmd.selector = "SELECTED_FOLDER" -> SelectFolder(cmd.payload)
         [] cmd.selector = "PUSH_VIEW" -> PushView(cmd.payload)
         [] cmd.selector = "GALLERY_SELECTED_IMAGE" -> SelectImage(cmd.payload)
         [] cmd.selector = "POP_VIEW" -> PopView
         [] OTHER -> PopFolderView
    /\ cmds' = Tail(cmds)
    /\ lastClick' = "none"
    /\ selBefore' = 0
    /\ streak' = 0
    /\ lastCmd' = Some(Head(cmds))
    /\ viewsBefore' = views
    /\ atPush' = IF Head(cmds).selector = "PUSH_VIEW" /\ views' # views
                 THEN Some(data)
                 ELSE IF Len(views') < 2 THEN None ELSE atPush
    /\ clicked' = IF Len(views') < 2 THEN None ELSE clicked
    /\ UNCHANGED lenUnderflow
    /\ UNCHANGED <<scanVars, thumbVars>>

\* The record of the next directory, with n images, arrives from the worker
\* and is appended to the folder list.
FolderArrives(n) ==
    /\ Idle
    /\ Len(delivered) < Cardinality(Dirs)
    /\ LET d == Preorder("root")[Len(delivered) + 1] IN
       delivered' =
         Append(delivered,
                ImageFolder(d, [paths |-> [i \in 1..n |-> FilePath(d, i)],
                                thumbnails |-> [i \in 1..n |->
                                    create_thumbnail(i - 1, FilePath(d, i))]]))
    /\ UNCHANGED <<files, rootExists, readable, fsEvents, pc, stack, cur,
                   ahead, visited, queue, submitted, alive, panicAt>>
    /\ UNCHANGED <<navVars, thumbVars>>

\* The navigation on its own: the worker's records arrive as they may and
\* the worker's own variables rest.
ScanIdle ==
    /\ files = [d \in Dirs |-> <<>>]
    /\ rootExists = TRUE
    /\ readable = [d \in Dirs |-> TRUE]
    /\ fsEvents = 0
    /\ pc = "start"
    /\ stack = <<>>
    /\ cur = "root"
    /\ ahead = Dirs
    /\ visited = <<>>
    /\ queue = <<>>
    /\ submitted = <<>>
    /\ delivered = <<>>
    /\ alive = TRUE
    /\ panicAt = "none"

NavInit ==
    /\ ScanIdle
    /\ NavIdle
    /\ ThumbIdle

NavNext ==
    \/ \E idx \in 0..(Cardinality(Dirs) - 1) : ClickFolderName(idx)
    \/ \E i \in 0..(MaxPaths - 1) : ClickThumbnail(i)
    \/ ClickFolderBack
    \/ ClickImageBack
    \/ ClickLeft
    \/ ClickRight
    \/ HandleCommand
    \/ \E n \in 1..MaxPaths : FolderArrives(n)

NavSpec == NavInit /\ [][NavNext]_vars

\* The image view on a FolderGalleryState of any shape its type allows, a
\* folder without paths included: the arrows' handlers see nothing else.
ArrowInit ==
    /\ ScanIdle
    /\ ThumbIdle
    /\ views = <<"Gallery", "Folder", "SingleImage">>
    /\ selectedFolder = Some(0)
    /\ \E d \in Dirs, n \in 0..MaxPaths :
         \E sel \in 0..(IF n = 0 THEN 0 ELSE n - 1) :
            data = [name |-> d,
                    paths |-> [i \in 1..n |-> FilePath(d, i)],
                    selected_image |-> sel]
    /\ cmds = <<>>
    /\ lastClick = "none"
    /\ selBefore = 0
    /\ streak = 0
    /\ lastCmd = None
    /\ viewsBefore = views
    /\ atPush = None
    /\ clicked = None
    /\ lenUnderflow = FALSE

ArrowNext ==
    \/ ClickLeft
    \/ ClickRight

\* The two arrows on their own.
ArrowSpec == ArrowInit /\ [][ArrowNext]_vars

\* Intents that wait in the command queue at one time.
MaxQueued == 2

\* The intents the presentation layer can send, legal where they arrive or
\* not: a push of either view, the two pops, and the selection of a folder
\* by an index up to one past the longest folder list.
Intents ==
    {Command("PUSH_VIEW", v) : v \in {"Folder", "SingleImage"}}
      \cup {Command("POP_VIEW", "unit"), Command("POP_FOLDER_VIEW", "unit")}
      \cup {Command("SELECTED_FOLDER", idx) : idx \in 0..Cardinality(Dirs)}

\* An intent is sent whatever the current view is, behind the intents that
\* still wait.
RequestIntent(cmd) ==
    /\ alive
    /\ Len(cmds) < MaxQueued
    /\ cmds' = Append(cmds, cmd)
    /\ UNCHANGED <<views, selectedFolder, data, lastClick, selBefore, streak>>
    /\ UNCHANGED navHistory
    /\ UNCHANGED <<scanVars, thumbVars>>

\* A record arrives at any time, between two commands of the queue too.
FolderArrivesAnytime ==
    /\ alive
    /\ Len(delivered) < Cardinality(Dirs)
    /\ LET d == Preorder("root")[Len(delivered) + 1] IN
       delivered' =
         Append(delivered,
                ImageFolder(d, [paths |-> [i \in 1..MaxPaths |-> FilePath(d, i)],
                                thumbnails |-> [i \in 1..MaxPaths |->
                                    create_thumbnail(i - 1, FilePath(d, i))]]))
    /\ UNCHANGED <<files, rootExists, readable, fsEvents, pc, stack, cur,
                   ahead, visited, queue, submitted, alive, panicAt>>
    /\ UNCHANGED <<navVars, thumbVars>>

IntentNext ==
    \/ \E cmd \in Intents : RequestIntent(cmd)
    \/ HandleCommand
    \/ FolderArrivesAnytime

\* The navigation under every sequence of intents.
IntentSpec == NavInit /\ [][IntentNext]_vars

\* ------------------------------------------------------------------------
\* create_thumbnail's dimensions, in f64 arithmetic
\* ------------------------------------------------------------------------

\* The bits of the significand of an f64.
Precision == 53

\* `let max_height = 150.0`
max_height == 150

\* Widths and heights of the images tried, each from 1 to its bound, and a
\* few beyond: the 400x300 image, heights next to max_height, and a height
\* whose scaled height is not 150.
MaxWidth == 21

MaxHeight == 7

Widths == (1..MaxWidth) \cup {150, 400}

Heights == (1..MaxHeight) \cup {150, 151, 281, 300}

\* Calls of create_thumbnail on the same image.
MaxCalls == 2

\* The binary digits of n >= 1, the most significant first.
RECURSIVE IntBits(_)
IntBits(n) == IF n < 2 THEN <<n>> ELSE Append(IntBits(n \div 2), n % 2)

\* The number whose binary digits are bs.
RECURSIVE BitsInt(_)
BitsInt(bs) == IF bs = <<>> THEN 0 ELSE 2 * BitsInt(Pop(bs)) + bs[Len(bs)]

\* The binary digits of the number of digits bs, plus one: the last 0
\* becomes 1 and the 1s behind it 0; digits that are all 1 give one digit
\* more.
Increment(bs) ==
    LET zeros == {i \in DOMAIN bs : bs[i] = 0} IN
    IF zeros = {}
    THEN <<1>> \o [i \in DOMAIN bs |-> 0]
    ELSE LET last == CHOOSE i \in zeros : \A j \in zeros : j <= i IN
         [i \in DOMAIN bs |->
            IF i < last THEN bs[i] ELSE IF i = last THEN 1 ELSE 0]

\* A positive f64 is its significand sig, Precision digits of which the
\* first is 1, and the exponent exp of its last digit: the digit weighs
\* 2^exp. Rounding is to nearest, ties to even: bs are the digits kept, and
\* what was cut off is more than half a unit of the last digit ("above"),
\* half a unit ("half") or less ("below").
RoundNearestEven(bs, exp, rest) ==
    LET up == rest = "above" \/ (rest = "half" /\ bs[Len(bs)] = 1)
        r  == IF up THEN Increment(bs) ELSE bs
    IN IF Len(r) > Len(bs)
       THEN [sig |-> Pop(r), exp |-> exp + 1]
       ELSE [sig |-> r, exp |-> exp]

\* What the remainder r of a division by b leaves below the last digit.
DivRest(r, b) ==
    IF 2 * r > b THEN "above" ELSE IF 2 * r = b THEN "half" ELSE "below"

\* The long division by b goes on from the remainder r < b for n >= 1
\* digits more: the digits and the remainder after them. The first half of
\* the digits is made before the second.
RECURSIVE DivDigits(_, _, _)
DivDigits(r, b, n) ==
    IF n = 1
    THEN LET bit == IF 2 * r >= b THEN 1 ELSE 0 IN
         [digits |-> <<bit>>, rem |-> 2 * r - bit * b]
    ELSE LET first == DivDigits(r, b, n \div 2)
             second == DivDigits(first.rem, b, n - n \div 2)
         IN [digits |-> first.digits \o second.digits, rem |-> second.rem]

\* The 0s that the long division of r by b, 0 < r < b, makes before its
\* first 1.
RECURSIVE LeadingZeros(_, _)
LeadingZeros(r, b) == IF 2 * r >= b THEN 0 ELSE 1 + LeadingZeros(2 * r, b)

\* a / b in f64, for integers a >= 1 and b >= 1 that f64 holds exactly: the
\* digits of the integer part, or past the leading 0s of a quotient below
\* 1, and the digits of the long division up to Precision digits, rounded.
F64Div(a, b) ==
    LET whole == IF a \div b = 0 THEN <<>> ELSE IntBits(a \div b)
        zeros == IF a \div b = 0 THEN LeadingZeros(a % b, b) ELSE 0
        more  == Precision - Len(whole)
        frac  == DivDigits((a % b) * 2^zeros, b, more)
    IN RoundNearestEven(whole \o frac.digits, 0 - (zeros + more),
                        DivRest(frac.rem, b))

Reverse(s) == [i \in 1..Len(s) |-> s[Len(s) + 1 - i]]

\* The digits of n times the number of digits bs, plus carry, the least
\* significant first. The lower half of bs is multiplied before the upper
\* half: its product's digits beyond its own length are what it carries
\* into the upper half.
RECURSIVE MulDigits(_, _, _)
MulDigits(bs, n, carry) ==
    IF Len(bs) = 1
    THEN Reverse(IntBits(n * bs[1] + carry))
    ELSE LET half == Len(bs) \div 2
             low == Len(bs) - half
             lower == MulDigits(SubSeq(bs, half + 1, Len(bs)), n, carry)
         IN SubSeq(lower, 1, low)
              \o MulDigits(SubSeq(bs, 1, half), n,
                           BitsInt(Reverse(SubSeq(lower, low + 1, Len(lower)))))

\* The digits of n times the number of digits bs.
MulBits(bs, n) == Reverse(MulDigits(bs, n, 0))

\* What the digits cut off leave below the last digit kept.
CutRest(low) ==
    IF low = <<>> \/ Head(low) = 0 THEN "below"
    ELSE IF \E i \in 2..Len(low) : low[i] = 1 THEN "above" ELSE "half"

\* `n as f64 * x` for an integer n >= 1 that f64 holds exactly: the exact
\* product, rounded to Precision digits.
F64MulInt(n, x) ==
    LET p == MulBits(x.sig, n)
        cut == Len(p) - Precision
    IN RoundNearestEven(SubSeq(p, 1, Precision), x.exp + cut,
                        CutRest(SubSeq(p, Precision + 1, Len(p))))

\* A conversion that rounds to the nearest integer.
F64Round(x) ==
    LET n == Precision + x.exp IN
    (IF n <= 0 THEN 0 ELSE BitsInt(SubSeq(x.sig, 1, n)))
      + (IF n >= 0 /\ n < Precision /\ x.sig[n + 1] = 1 THEN 1 ELSE 0)

\* `x.trunc() as u32`: the digits of x that weigh 1 or more. The sizes of
\* the model stay below 2^32, where the conversion saturates.
F64Trunc(x) ==
    LET n == Precision + x.exp IN
    IF n <= 0 THEN 0 ELSE BitsInt(SubSeq(x.sig, 1, n))

\* `let scale = max_height / height as f64`
Scale(height) == F64Div(max_height, height)

\* (new_width, new_height) of create_thumbnail for an image of the given
\* dimensions: the dimensions of the thumbnail.
ThumbnailSize(width, height) ==
    LET scale == Scale(height)
        scaled_width == F64MulInt(width, scale)
        scaled_height == F64MulInt(height, scale)
    IN [width |-> F64Trunc(scaled_width), height |-> F64Trunc(scaled_height)]

\* create_thumbnail is called on the image.
CreateThumbnail ==
    /\ calls < MaxCalls
    /\ calls' = calls + 1
    /\ thumb' = Some(ThumbnailSize(imgW, imgH))
    /\ firstThumb' = IF calls = 0 THEN thumb' ELSE firstThumb
    /\ UNCHANGED <<imgW, imgH>>
    /\ UNCHANGED <<scanVars, navVars>>

\* create_thumbnail on its own, on a decoded image of any of the sizes.
ThumbInit ==
    /\ ScanIdle
    /\ NavIdle
    /\ imgW \in Widths
    /\ imgH \in Heights
    /\ thumb = None
    /\ firstThumb = None
    /\ calls = 0

ThumbNext == CreateThumbnail

ThumbSpec == ThumbInit /\ [][ThumbNext]_vars

\* The presentation context takes its turn whenever a command waits for it.
\* The three ways a file fails leave the same record, so the trees of this
\* specification hold images and corrupt files.
FairInit == ScanInitOver({"image", "corrupt"})

FairSpec == FairInit /\ [][Next]_vars /\ WF_vars(Deliver)

\* The worker's own steps: the thread is scheduled whenever it can run, and
\* none of its steps waits for the presentation context.
WorkerStep == WalkRoot \/ FilterEntry \/ WalkNext \/ ScanEntry

\* The worker thread keeps running; the presentation context may consume the
\* records slowly or not at all.
WorkerFairSpec == FairInit /\ [][Next]_vars /\ WF_vars(WorkerStep)

\* ------------------------------------------------------------------------
\* Properties of the scan and of the result channel
\* ------------------------------------------------------------------------

Range(s) == {s[i] : i \in DOMAIN s}

IsPrefix(s, t) == Len(s) <= Len(t) /\ SubSeq(t, 1, Len(s)) = s

NoDuplicates(s) == \A i, j \in DOMAIN s : i # j => s[i] # s[j]

\* Every record the worker has built that is queued or delivered.
AllRecords == Range(submitted) \cup Range(queue) \cup Range(delivered)

\* The positions of the decodable files of directory d, in listing order.
ImagePositions(d) == {i \in DOMAIN files[d] : files[d][i] = "image"}

Ascending(S) ==
    CHOOSE s \in [1..Cardinality(S) -> S] :
        \A i, j \in 1..Cardinality(S) : i < j => s[i] < s[j]

Nonempty(d) == Len(files[d]) + Len(SubDirs(d)) > 0

\* A directory the walk descends to in a filesystem that does not change:
\* non-empty itself, below non-empty directories only.
RECURSIVE Traversable(_)
Traversable(d) ==
    Nonempty(d) /\ (d = "root" \/ Traversable(IF d = "c" THEN "b" ELSE "root"))

HasImage(d) == ImagePositions(d) # {}

\* C1: the records delivered so far are always a prefix of the records
\* submitted so far: delivery never reorders submissions.
C1_DeliveryIsPrefixOfSubmission == IsPrefix(delivered, submitted)

\* Three records were submitted and delivered while the worker went on.
C1_ThreeDeliveredInOrder ==
    /\ Len(delivered) = 3
    /\ Len(submitted) = 3
    /\ delivered[1].name = "root" /\ delivered[2].name = "a"

\* C2: while the presentation context is alive every submitted record is
\* eventually delivered, and each record is delivered once: what was
\* submitted is what was delivered followed by what still waits, without
\* repetition.
C2_EveryRecordDeliveredOnce ==
    /\ [](submitted = delivered \o queue /\ NoDuplicates(submitted))
    /\ \A i \in 1..Cardinality(Dirs) :
         (Len(submitted) >= i) ~> (Len(delivered) >= i \/ ~alive)

\* Two records were submitted and both have been delivered to a live context.
C2_AllDelivered ==
    /\ alive
    /\ pc = "done"
    /\ Len(submitted) >= 2
    /\ delivered = submitted

\* C3: a submission after the presentation context has terminated never ends
\* the worker: no state is reached where the unwrap of submit_command's
\* result has panicked.
C3_DeadSubmitNeverPanics == ~(pc = "panicked" /\ panicAt = "submit")

\* C4: every record has as many thumbnails as paths, and the i-th thumbnail
\* carries index i (counted from 0) and is the thumbnail of the i-th path.
C4_Alignment ==
    \A rec \in AllRecords :
        /\ Len(rec.paths) = Len(rec.thumbnails)
        /\ \A i \in DOMAIN rec.thumbnails :
             /\ rec.thumbnails[i].index = i - 1
             /\ rec.thumbnails[i].image = rec.paths[i]

\* A delivered record of a directory whose first file failed and whose later
\* files decoded.
C4_MixedDirectoryDelivered ==
    \E i \in DOMAIN delivered :
        /\ Len(files[delivered[i].name]) = 3
        /\ files[delivered[i].name][1] # "image"
        /\ Len(delivered[i].paths) = 2

\* C5: no record without thumbnails is submitted, queued or delivered, and a
\* directory none of whose files decodes has no record.
C5_NoEmptyFolder ==
    \A rec \in AllRecords :
        /\ Len(rec.thumbnails) > 0
        /\ HasImage(rec.name)

\* The worker has read a directory that holds files, none of them decodable,
\* and has finished.
C5_UndecodableDirectoryRead ==
    /\ pc = "done"
    /\ \E i \in DOMAIN visited :
         Len(files[visited[i]]) = 2 /\ ~HasImage(visited[i])

\* The tree of the scenario: a holds two images and a corrupt file, b holds
\* only the empty directory c, and root holds only a and b.
Scenario ==
    /\ rootExists
    /\ files["root"] = <<>> /\ files["b"] = <<>> /\ files["c"] = <<>>
    /\ Len(files["a"]) = 3
    /\ Cardinality(ImagePositions("a")) = 2

SelectDirs(ds, Test(_)) == SelectSeq(ds, Test)

\* C8: the worker submits one record for each directory it reads that holds
\* a decodable file, in the order it reads them, and none for any other: this
\* holds of every worker that has not panicked, and a worker panics only
\* after the window was closed, the filesystem changed under it, or without
\* a root. In an unchanging tree it reads the non-empty directories below
\* non-empty directories; in the scenario only a gets a record, with two
\* entries.
C8_OneRecordPerDecodableDirectory ==
    /\ pc = "panicked" => (~alive \/ fsEvents > 0 \/ ~rootExists)
    /\ pc # "panicked" =>
         /\ Len(submitted) = Len(SelectDirs(visited, HasImage))
         /\ \A i \in DOMAIN submitted :
              submitted[i].name = SelectDirs(visited, HasImage)[i]
    /\ (pc = "done" /\ fsEvents = 0) =>
         visited = SelectDirs(Preorder("root"), Traversable)
    /\ Scenario =>
         /\ \A rec \in AllRecords : rec.name = "a" /\ Len(rec.paths) = 2
         /\ (pc = "done" /\ fsEvents = 0) => Len(submitted) = 1
         /\ (pc = "done" /\ fsEvents = 0 /\ alive /\ queue = <<>>) =>
              Len(delivered) = 1

\* The scan of the scenario's tree has finished and its one record is
\* delivered.
C8_ScenarioScanned ==
    /\ Scenario
    /\ pc = "done" /\ fsEvents = 0 /\ alive
    /\ Len(delivered) = 1
    /\ visited = <<"root", "a", "b">>

\* C9: the paths of a record are the decodable files of its directory, all of
\* them, in listing order, wherever the failing files sit.
C9_PathsAreDecodableSubsequence ==
    \A rec \in AllRecords :
        LET pos == Ascending(ImagePositions(rec.name)) IN
        /\ Len(rec.paths) = Len(pos)
        /\ \A k \in DOMAIN pos : rec.paths[k] = FilePath(rec.name, pos[k])

\* A record of a directory whose failing file sits between two images.
C9_FailureBetweenImages ==
    \E rec \in Range(delivered) :
        /\ Len(files[rec.name]) = 3
        /\ files[rec.name][2] # "image"
        /\ rec.paths = <<FilePath(rec.name, 1), FilePath(rec.name, 3)>>

\* C10: a directory that cannot be read at some point of the walk is left
\* out and the worker goes on to the remaining directories: the worker is
\* never ended by a directory that turned unreadable between the filter's
\* check and its listing while a readable directory with an image, outside
\* that directory, is still ahead.
C10_UnreadableDirectoryIsSkipped ==
    ~(/\ pc = "panicked"
      /\ panicAt = "read_dir"
      /\ \E d \in ahead \ Subtree(cur) : readable[d] /\ HasImage(d))

\* ------------------------------------------------------------------------
\* Properties of the selection cursor
\* ------------------------------------------------------------------------

\* C6: whenever the current folder has paths, selected_image is one of their
\* indices.
C6_SelectionInBounds ==
    data.paths # <<>> =>
        0 <= data.selected_image /\ data.selected_image < Len(data.paths)

\* The image view shows the last image of a folder of several, reached by a
\* step to the right.
C6_SteppedToLastImage ==
    /\ Top = "SingleImage"
    /\ Len(data.paths) >= 2
    /\ lastClick = "right"
    /\ selBefore = Len(data.paths) - 2
    /\ data.selected_image = Len(data.paths) - 1

\* C7: a click on the left arrow at index 0 leaves selected_image at 0 and a
\* click on the right arrow at the last index leaves it at the last index,
\* however many times in a row: no step wraps to the other end.
C7_BoundaryStepsClamp ==
    /\ (lastClick = "left" /\ selBefore = 0) => data.selected_image = 0
    /\ (lastClick = "right" /\ selBefore = Len(data.paths) - 1) =>
         data.selected_image = Len(data.paths) - 1

\* The right arrow was clicked twice in a row at the last image of a folder
\* of several.
C7_RepeatedBoundaryClicks ==
    /\ streak >= 2
    /\ Len(data.paths) >= 2
    /\ lastClick = "right"
    /\ data.selected_image = Len(data.paths) - 1

\* ------------------------------------------------------------------------
\* The root path
\* ------------------------------------------------------------------------

\* C11: a root path that does not exist is reported before the worker starts
\* and the worker does not start: no state is reached where the worker has
\* failed on a missing root.
C11_NoWorkerOnMissingRoot ==
    ~(~rootExists /\ pc = "panicked" /\ panicAt = "entry")

\* ------------------------------------------------------------------------
\* Properties of the view stack
\* ------------------------------------------------------------------------

IsPop(c) == c.selector \in {"POP_VIEW", "POP_FOLDER_VIEW"}

\* C12: the view stack is never empty and its bottom frame is Gallery; a pop
\* removes the top frame and leaves the frames below, and a pop handled
\* while Gallery is the top frame leaves the stack as it was.
C12_StackBottomIsGallery ==
    /\ views # <<>>
    /\ views[1] = "Gallery"
    /\ \A c \in Range(lastCmd) :
         IsPop(c) =>
           views = IF viewsBefore = <<"Gallery">>
                   THEN viewsBefore
                   ELSE Pop(viewsBefore)

\* A pop was handled on the gallery, with folders in the list, and the stack
\* is as before.
C12_PopOnGallery ==
    /\ lastCmd # None
    /\ IsPop(lastCmd[1])
    /\ viewsBefore = <<"Gallery">>
    /\ views = <<"Gallery">>
    /\ delivered # <<>>

\* C13: whatever intents arrive, the same push twice in the queue among
\* them, the stack is [Gallery], [Gallery, Folder] or [Gallery, Folder,
\* SingleImage]; a push other than SingleImage on top of Folder leaves the
\* stack as it was.
C13_OnlyLegalStacks ==
    /\ views \in {<<"Gallery">>, <<"Gallery", "Folder">>,
                  <<"Gallery", "Folder", "SingleImage">>}
    /\ \A c \in Range(lastCmd) :
         (/\ c.selector = "PUSH_VIEW"
          /\ ~(c.payload = "SingleImage"
                 /\ viewsBefore[Len(viewsBefore)] = "Folder"))
           => views = viewsBefore

\* A push of SingleImage was handled on top of SingleImage and rejected.
C13_SecondPushRejected ==
    /\ lastCmd # None
    /\ lastCmd[1].selector = "PUSH_VIEW"
    /\ lastCmd[1].payload = "SingleImage"
    /\ viewsBefore = <<"Gallery", "Folder", "SingleImage">>
    /\ views = viewsBefore

\* The image view's pop was handled last: the folder view is back.
PoppedBack ==
    /\ lastCmd # None
    /\ lastCmd[1].selector = "POP_FOLDER_VIEW"
    /\ viewsBefore = <<"Gallery", "Folder", "SingleImage">>

\* The step handles a command with one of these selectors.
Handles(selectors) ==
    /\ cmds # <<>>
    /\ Head(cmds).selector \in selectors
    /\ cmds' = Tail(cmds)

C15_SelectedFolderInList ==
    /\ \A idx \in Range(selectedFolder) :
         /\ idx < Len(delivered)
         /\ data.name = delivered[idx + 1].name
    /\ \A c \in Range(lastCmd) :
         (c.selector = "SELECTED_FOLDER" /\ c.payload >= Len(delivered))
           => views = viewsBefore

\* A selection by an index outside the list was handled on the gallery
\* while some of the records had arrived, and no folder is selected.
C15_OutOfRangeRejected ==
    /\ lastCmd # None
    /\ lastCmd[1].selector = "SELECTED_FOLDER"
    /\ lastCmd[1].payload >= Len(delivered)
    /\ delivered # <<>>
    /\ Len(delivered) < Cardinality(Dirs)
    /\ views = <<"Gallery">>
    /\ selectedFolder = None

\* ------------------------------------------------------------------------
\* Properties of the thumbnail's dimensions
\* ------------------------------------------------------------------------

\* C16: the thumbnail of every image of width and height 1 or more is 1 or
\* more wide and 1 or more high.
C16_ThumbnailAtLeastOnePixel ==
    \A t \in Range(thumb) : t.width >= 1 /\ t.height >= 1

\* C17: the thumbnail's height is trunc(h * scale) and its width
\* trunc(w * scale) with scale = 150 / h in f64: the height is 150 or, the
\* product falling short of 150 by a rounding, 149, and never more than 150;
\* the width is w * 150 / h cut to an integer, or one less where the f64
\* product falls short of an integer; every call on the same image gives
\* the same dimensions; and a 400x300 image gives 200x150.
C17_ThumbnailDimensions ==
    \A t \in Range(thumb) :
        /\ t.height <= max_height
        /\ t.height >= max_height - 1
        /\ t.width * imgH <= max_height * imgW
        /\ (t.width + 1) * imgH >= max_height * imgW
        /\ thumb = firstThumb
        /\ (imgW = 400 /\ imgH = 300) => t = [width |-> 200, height |-> 150]

\* create_thumbnail was called twice on the 400x300 image.
C17_Thumbnail400x300 ==
    /\ imgW = 400
    /\ imgH = 300
    /\ calls = 2
    /\ thumb = Some([width |-> 200, height |-> 150])

\* C18: over a finite tree the worker eventually completes the traversal,
\* however slowly, and whether at all, the presentation context consumes the
\* records.
\* The tree is there and stays as it is, so that only the presentation
\* context can stand in the worker's way.
C18_WorkerReachesEndOfTraversal ==
    <>(pc = "done" \/ ~rootExists \/ fsEvents > 0)

\* The command is the push of SingleImage.
IsPushOfImage(c) == c.selector = "PUSH_VIEW" /\ c.payload = "SingleImage"

\* The command is the selection of the thumbnail that was clicked.
IsSelectionOfClicked(c) ==
    c.selector = "GALLERY_SELECTED_IMAGE" /\ clicked = Some(c.payload)

C20_ArrowsOnEmptyAndInnerPositions ==
    /\ [](~lenUnderflow)
    /\ [][/\ data'.name = data.name
          /\ data'.paths = data.paths
          /\ data.paths = <<>> => data' = data
          /\ data.paths # <<>> /\ lastClick' = "left"
                /\ data.selected_image # 0 =>
                  data'.selected_image = data.selected_image - 1
          /\ data.paths # <<>> /\ lastClick' = "right"
                /\ data.selected_image # Len(data.paths) - 1 =>
                  data'.selected_image = data.selected_image + 1]_vars

\* The right arrow was clicked on a folder without paths.
C20_RightArrowOnEmptyFolder ==
    /\ Top = "SingleImage"
    /\ data.paths = <<>>
    /\ data.selected_image = 0
    /\ lastClick = "right"
    /\ selBefore = 0

====
